---- MODULE Spec2Model ----
(***************************************************************************)
(* Indexed Merkle proofs and chunk verification of casper-hashing:         *)
(*   src/hashing/src/primitives.rs       hash_merkle_tree,                 *)
(*                                       IndexedMerkleProof                *)
(*   src/hashing/src/chunk_with_proof.rs ChunkWithProof, caller-chosen     *)
(*                                       chunk size, verify()              *)
(*   src/hashing/src/chunk.rs            ChunkWithProof, fixed CHUNK_SIZE, *)
(*                                       is_valid()                        *)
(*                                                                         *)
(* Bytes.  A byte string is a sequence of atoms.  An atom is either a raw  *)
(* byte [b |-> v] or the block of Digest::LENGTH bytes of a hash value     *)
(* ([h |-> preimage] for a hash output, [sentinel |-> k] for the constant  *)
(* arrays).  BLAKE2b is modelled collision-free: the hash of a byte        *)
(* string is the term [h |-> that string], and feeding the hasher two      *)
(* slices is hashing their concatenation.                                  *)
(*                                                                         *)
(* Words.  u64 and usize (64-bit target) are modelled as BITS-bit words.   *)
(***************************************************************************)
EXTENDS Integers, Sequences, FiniteSets, TLC

\* ---------------------------------------------------------------- bounds
\* Width of the machine word that stands for u64 / usize.
BITS == 5
\* Longest leaf sequence handed to hash_merkle_tree / IndexedMerkleProof::new.
MaxLeaves == 5
\* Longest data buffer handed to the chunk packagers.
MaxData == 5
\* Largest chunk_size handed to ChunkWithProof::new (chunk_with_proof.rs).
MaxChunkSize == 2
\* chunk.rs ChunkWithProof::CHUNK_SIZE (10 under cfg(test), 2^20 otherwise),
\* scaled to the buffers above.
CHUNK_SIZE == 2
\* Longest data buffer an untrusted peer forges a chunk against.
MaxForgeData == 3
\* Largest index and count of a forged chunk.
MaxForge == 3
\* Longest sibling list of a forged chunk.
MaxForgeLen == 2
\* Longest of two leaf sequences whose roots are compared.
MaxPair == 3

RECURSIVE Pow2(_)
Pow2(k) == IF k = 0 THEN 1 ELSE 2 * Pow2(k - 1)

\* u64::MAX / usize::MAX + 1 of the modelled word.
Modulus == Pow2(BITS)

Word == 0 .. (Modulus - 1)

\* --------------------------------------------------------------- results
Ok(v) == [tag |-> "Ok", val |-> v]

Err(e) == [tag |-> "Err", err |-> e]

\* An abort of the call: panic!, unreachable!, overflow check, slice check.
Panic(m) == [tag |-> "Panic", msg |-> m]

\* MerkleConstructionError::IndexOutOfBounds and
\* MerkleVerificationError::IndexOutOfBounds
IndexOutOfBounds(count, index) ==
    [kind |-> "IndexOutOfBounds", count |-> count, index |-> index]

\* MerkleConstructionError::EmptyProofMustHaveIndex
EmptyProofMustHaveIndex(index) ==
    [kind |-> "EmptyProofMustHaveIndex", index |-> index]

\* MerkleVerificationError::UnexpectedProofLength
UnexpectedProofLength(count, index, expected, actual) ==
    [kind |-> "UnexpectedProofLength", count |-> count, index |-> index,
     expected_proof_length |-> expected, actual_proof_length |-> actual]

\* MerkleConstructionError::IncorrectChunkProof (chunk.rs)
IncorrectChunkProof == [kind |-> "IncorrectChunkProof"]

\* ----------------------------------------------------------------- bytes
\* One raw byte.
Byte(v) == [b |-> v]

\* AsRef<[u8]> for Blake2bHash / Digest: the bytes of a hash value.
AsRef(hash) == <<hash>>

\* u64::to_le_bytes: eight bytes, least significant first.
RECURSIVE le_digits(_, _)
le_digits(n, k) ==
    IF k = 0 THEN <<>> ELSE <<Byte(n % 256)>> \o le_digits(n \div 256, k - 1)

to_le_bytes(n) == le_digits(n, 8)

\* ---------------------------------------------------------------- hashes
SENTINEL0 == [sentinel |-> 0]

SENTINEL1 == [sentinel |-> 1]

SENTINEL2 == [sentinel |-> 2]

\* blake2b_hash / Digest::hash / Digest::blake2b_hash
blake2b_hash(data) == [h |-> data]

\* hash_pair: update(data1); update(data2); finalize
hash_pair(data1, data2) == blake2b_hash(data1 \o data2)

\* ------------------------------------------------------------ word maths
RECURSIVE bit_length(_)
bit_length(x) == IF x = 0 THEN 0 ELSE 1 + bit_length(x \div 2)

\* u64::leading_zeros
leading_zeros(x) == BITS - bit_length(x)

\* 1u64 << (63 - (n - 1).leading_zeros()), for n > 1
pivot_of(n) == Pow2((BITS - 1) - leading_zeros(n - 1))

\* ------------------------------------------------ the two fold closures
\* the closure of hash_merkle_tree over carriers (count, hash)
merkle_combine(x, y) == <<x[1] + y[1], hash_pair(AsRef(x[2]), AsRef(y[2]))>>

\* enum HashOrProof of IndexedMerkleProof::new
HashCarrier(hash) == [tag |-> "Hash", hash |-> hash, proof |-> <<>>]

ProofCarrier(proof) == [tag |-> "Proof", hash |-> SENTINEL0, proof |-> proof]

\* the unreachable!() arm, once taken, aborts the whole call
UnreachableCarrier == [tag |-> "Unreachable", hash |-> SENTINEL0, proof |-> <<>>]

\* proof_combine that keeps the left count instead of adding the two
proof_combine_left_count(x, y) ==
    LET count == x[1]
    IN  CASE x[2].tag = "Hash" /\ y[2].tag = "Hash" ->
               <<count, HashCarrier(hash_pair(AsRef(x[2].hash), AsRef(y[2].hash)))>>
          [] x[2].tag = "Hash" /\ y[2].tag = "Proof" ->
               <<count, ProofCarrier(Append(y[2].proof, x[2].hash))>>
          [] x[2].tag = "Proof" /\ y[2].tag = "Hash" ->
               <<count, ProofCarrier(Append(x[2].proof, y[2].hash))>>
          [] OTHER -> <<count, UnreachableCarrier>>

\* proof_combine that puts the sibling in front of the proof (insert(0, hash))
proof_combine_prepend(x, y) ==
    LET count == x[1] + y[1]
    IN  CASE x[2].tag = "Hash" /\ y[2].tag = "Hash" ->
               <<count, HashCarrier(hash_pair(AsRef(x[2].hash), AsRef(y[2].hash)))>>
          [] x[2].tag = "Hash" /\ y[2].tag = "Proof" ->
               <<count, ProofCarrier(<<x[2].hash>> \o y[2].proof)>>
          [] x[2].tag = "Proof" /\ y[2].tag = "Hash" ->
               <<count, ProofCarrier(<<y[2].hash>> \o x[2].proof)>>
          [] OTHER -> <<count, UnreachableCarrier>>

\* the closure of IndexedMerkleProof::new over carriers (count, HashOrProof)
proof_combine(x, y) ==
    LET count == x[1] + y[1]
    IN  CASE x[2].tag = "Hash" /\ y[2].tag = "Hash" ->
               <<count, HashCarrier(hash_pair(AsRef(x[2].hash), AsRef(y[2].hash)))>>
          [] x[2].tag = "Hash" /\ y[2].tag = "Proof" ->
               <<count, ProofCarrier(Append(y[2].proof, x[2].hash))>>
          [] x[2].tag = "Proof" /\ y[2].tag = "Hash" ->
               <<count, ProofCarrier(Append(x[2].proof, y[2].hash))>>
          [] OTHER -> <<count, UnreachableCarrier>>

\* f(a, b) for the closure named f
call(f, a, b) ==
    IF f = "hash_merkle_tree" THEN merkle_combine(a, b) ELSE proof_combine(a, b)

\* ------------------------------------------------- Itertools::tree_fold1
\* The iterator is the pair (items, pos): pos is the next item to yield.
\* State<T> = Result<T, Option<T>>: tags "Ok", "ErrNone", "ErrSome".
FoldState(tag, val, pos) == [tag |-> tag, val |-> val, pos |-> pos]

inner0(f, items, pos) ==
    IF pos > Len(items) THEN FoldState("ErrNone", <<>>, pos)
    ELSE IF pos + 1 > Len(items) THEN FoldState("ErrSome", items[pos], pos + 1)
    ELSE FoldState("Ok", call(f, items[pos], items[pos + 1]), pos + 2)

RECURSIVE inner(_, _, _, _), inner_loop(_, _, _, _, _, _)
inner(f, stop, items, pos) ==
    LET first == inner0(f, items, pos)
    IN  IF first.tag # "Ok" THEN first
        ELSE inner_loop(f, 0, stop, first.val, items, first.pos)

\* for height in 0..stop, with x the tree combined so far
inner_loop(f, height, stop, x, items, pos) ==
    IF height >= stop THEN FoldState("Ok", x, pos)
    ELSE LET next == IF height = 0 THEN inner0(f, items, pos)
                     ELSE inner(f, height, items, pos)
         IN  CASE next.tag = "Ok" ->
                    inner_loop(f, height + 1, stop, call(f, x, next.val), items, next.pos)
               [] next.tag = "ErrNone" -> FoldState("ErrSome", x, next.pos)
               [] next.tag = "ErrSome" ->
                    FoldState("ErrSome", call(f, x, next.val), next.pos)

\* fold1 in place of tree_fold1: a left fold, ((a b) c) d ...
RECURSIVE fold_left(_, _, _, _)
fold_left(f, acc, items, pos) ==
    IF pos > Len(items) THEN acc
    ELSE fold_left(f, call(f, acc, items[pos]), items, pos + 1)

fold1(f, items) ==
    IF items = <<>> THEN FoldState("ErrNone", <<>>, 1)
    ELSE FoldState("ErrSome", fold_left(f, items[1], items, 2), Len(items) + 1)

\* Option<Item>: "ErrNone" is None, "ErrSome" is Some(val).
tree_fold1(f, items) == inner(f, Modulus - 1, items, 1)

\* ------------------------------------------------------ hash_merkle_tree
\* hash_merkle_tree without the final hash with the leaf count
hash_merkle_tree_raw(leaves) ==
    LET folded == tree_fold1("hash_merkle_tree",
                             [k \in 1 .. Len(leaves) |-> <<1, leaves[k]>>])
        carrier == IF folded.tag = "ErrNone" THEN <<0, SENTINEL2>> ELSE folded.val
    IN  carrier[2]

\* hash_merkle_tree with unwrap_or((1, SENTINEL2)): no leaves counted as one
hash_merkle_tree_empty_as_one(leaves) ==
    LET folded == tree_fold1("hash_merkle_tree",
                             [k \in 1 .. Len(leaves) |-> <<1, leaves[k]>>])
        carrier == IF folded.tag = "ErrNone" THEN <<1, SENTINEL2>> ELSE folded.val
        leaf_count == carrier[1]
        raw_root == carrier[2]
    IN  hash_pair(to_le_bytes(leaf_count), AsRef(raw_root))

hash_merkle_tree(leaves) ==
    LET folded == tree_fold1("hash_merkle_tree",
                             [k \in 1 .. Len(leaves) |-> <<1, leaves[k]>>])
        carrier == IF folded.tag = "ErrNone" THEN <<0, SENTINEL2>> ELSE folded.val
        leaf_count == carrier[1]
        raw_root == carrier[2]
    IN  hash_pair(to_le_bytes(leaf_count), AsRef(raw_root))

\* ---------------------------------------------------- IndexedMerkleProof
\* struct IndexedMerkleProof { index, count, merkle_proof }
Proof(index, count, merkle_proof) ==
    [index |-> index, count |-> count, merkle_proof |-> merkle_proof]

\* IndexedMerkleProof::new that treats no leaves like an index out of bounds
IndexedMerkleProof_new_no_empty_case(leaves, index) ==
    LET tagged == [k \in 1 .. Len(leaves) |->
                     IF k - 1 = index THEN <<1, ProofCarrier(<<leaves[k]>>)>>
                     ELSE <<1, HashCarrier(leaves[k])>>]
        maybe_count_and_proof == tree_fold1("IndexedMerkleProof::new", tagged)
        count == maybe_count_and_proof.val[1]
        carrier == maybe_count_and_proof.val[2]
    IN  IF maybe_count_and_proof.tag = "ErrNone"
        THEN IF index # 0 THEN Err(IndexOutOfBounds(0, index))
             ELSE Ok(Proof(0, 0, <<>>))
        ELSE CASE carrier.tag = "Hash" -> Err(IndexOutOfBounds(count, index))
               [] carrier.tag = "Proof" -> Ok(Proof(index, count, carrier.proof))
               [] OTHER -> Panic("unreachable")

\* IndexedMerkleProof::new that tags every leaf from the index on (i >= index)
IndexedMerkleProof_new_tag_from_index(leaves, index) ==
    LET tagged == [k \in 1 .. Len(leaves) |->
                     IF k - 1 >= index THEN <<1, ProofCarrier(<<leaves[k]>>)>>
                     ELSE <<1, HashCarrier(leaves[k])>>]
        maybe_count_and_proof == tree_fold1("IndexedMerkleProof::new", tagged)
        count == maybe_count_and_proof.val[1]
        carrier == maybe_count_and_proof.val[2]
    IN  IF maybe_count_and_proof.tag = "ErrNone"
        THEN IF index # 0 THEN Err(EmptyProofMustHaveIndex(index))
             ELSE Ok(Proof(0, 0, <<>>))
        ELSE CASE carrier.tag = "Hash" -> Err(IndexOutOfBounds(count, index))
               [] carrier.tag = "Proof" -> Ok(Proof(index, count, carrier.proof))
               [] OTHER -> Panic("unreachable")

\* IndexedMerkleProof::new; leaf k of the iterator (0-based) is leaves[k + 1]
IndexedMerkleProof_new(leaves, index) ==
    LET tagged == [k \in 1 .. Len(leaves) |->
                     IF k - 1 = index THEN <<1, ProofCarrier(<<leaves[k]>>)>>
                     ELSE <<1, HashCarrier(leaves[k])>>]
        maybe_count_and_proof == tree_fold1("IndexedMerkleProof::new", tagged)
        count == maybe_count_and_proof.val[1]
        carrier == maybe_count_and_proof.val[2]
    IN  IF maybe_count_and_proof.tag = "ErrNone"
        THEN IF index # 0 THEN Err(EmptyProofMustHaveIndex(index))
             ELSE Ok(Proof(0, 0, <<>>))
        ELSE CASE carrier.tag = "Hash" -> Err(IndexOutOfBounds(count, index))
               [] carrier.tag = "Proof" -> Ok(Proof(index, count, carrier.proof))
               [] OTHER -> Panic("unreachable")

\* path_walk without path <<= 1
RECURSIVE path_walk_no_shift(_, _, _)
path_walk_no_shift(path, n, i) ==
    IF n > 1
    THEN LET pivot == pivot_of(n)
         IN  IF i < pivot THEN path_walk_no_shift(path, pivot, i)
             ELSE path_walk_no_shift(path + 1 - (path % 2), n - pivot, i - pivot)
    ELSE path

\* the path of root_hash: while n > 1 { path <<= 1; ... }, returns path
RECURSIVE path_walk(_, _, _)
path_walk(path, n, i) ==
    IF n > 1
    THEN LET shifted == (path * 2) % Modulus
             pivot == pivot_of(n)
         IN  IF i < pivot THEN path_walk(shifted, pivot, i)
             ELSE path_walk(shifted + 1 - (shifted % 2), n - pivot, i - pivot)
    ELSE path

\* fold_proof with the two operands of the hasher exchanged
RECURSIVE fold_proof_swapped(_, _, _)
fold_proof_swapped(acc, path, hashes) ==
    IF hashes = <<>> THEN acc
    ELSE LET hash == Head(hashes)
             next == IF path % 2 = 1 THEN hash_pair(AsRef(acc), AsRef(hash))
                     ELSE hash_pair(AsRef(hash), AsRef(acc))
         IN  fold_proof_swapped(next, path \div 2, Tail(hashes))

\* fold_proof that hashes every sibling in twice
RECURSIVE fold_proof_twice(_, _, _)
fold_proof_twice(acc, path, hashes) ==
    IF hashes = <<>> THEN acc
    ELSE LET hash == Head(hashes)
             once == IF path % 2 = 1 THEN hash_pair(AsRef(hash), AsRef(acc))
                     ELSE hash_pair(AsRef(acc), AsRef(hash))
             next == IF path % 2 = 1 THEN hash_pair(AsRef(hash), AsRef(once))
                     ELSE hash_pair(AsRef(once), AsRef(hash))
         IN  fold_proof_twice(next, path \div 2, Tail(hashes))

\* for hash in hashes { ... path >>= 1 }, returns acc
RECURSIVE fold_proof(_, _, _)
fold_proof(acc, path, hashes) ==
    IF hashes = <<>> THEN acc
    ELSE LET hash == Head(hashes)
             next == IF path % 2 = 1 THEN hash_pair(AsRef(hash), AsRef(acc))
                     ELSE hash_pair(AsRef(acc), AsRef(hash))
         IN  fold_proof(next, path \div 2, Tail(hashes))

\* root_hash with SENTINEL0 for the proof without entries
root_hash_sentinel0(self) ==
    LET raw_root == IF self.merkle_proof # <<>>
                    THEN fold_proof(Head(self.merkle_proof),
                                    path_walk(0, self.count, self.index),
                                    Tail(self.merkle_proof))
                    ELSE SENTINEL0
    IN  hash_pair(to_le_bytes(self.count), AsRef(raw_root))

\* IndexedMerkleProof::root_hash
root_hash(self) ==
    LET raw_root == IF self.merkle_proof # <<>>
                    THEN fold_proof(Head(self.merkle_proof),
                                    path_walk(0, self.count, self.index),
                                    Tail(self.merkle_proof))
                    ELSE SENTINEL2
    IN  hash_pair(to_le_bytes(self.count), AsRef(raw_root))

\* the loop of compute_expected_proof_length, returns l
RECURSIVE length_walk(_, _, _)
length_walk(l, n, i) ==
    IF n > 1
    THEN LET pivot == pivot_of(n)
         IN  IF i < pivot THEN length_walk(l + 1, pivot, i)
             ELSE length_walk(l + 1, n - pivot, i - pivot)
    ELSE l

\* compute_expected_proof_length that forgets to count the leaf entry
compute_expected_proof_length_from_zero(self) ==
    IF self.count = 0 THEN 0 ELSE length_walk(0, self.count, self.index)

\* IndexedMerkleProof::compute_expected_proof_length
compute_expected_proof_length(self) ==
    IF self.count = 0 THEN 0 ELSE length_walk(1, self.count, self.index)

\* One iteration of the while loop, with the values it computes: zeros is
\* (n - 1).leading_zeros(), shift is 63 - zeros, pivot is 1 << shift, and
\* n_out, i_out are n and i after the iteration (as integers, before any
\* wrapping or overflow check of the subtraction).
WalkStep(n, i, zeros, shift, pivot, left) ==
    [n |-> n, i |-> i, zeros |-> zeros, shift |-> shift, pivot |-> pivot,
     left |-> left,
     n_out |-> IF left THEN pivot ELSE n - pivot,
     i_out |-> IF left THEN i ELSE i - pivot]

\* the walk with the branches exchanged (if i >= pivot { n = pivot } else ...)
RECURSIVE walk_trace_inverted(_, _)
walk_trace_inverted(n, i) ==
    IF n > 1
    THEN LET zeros == leading_zeros(n - 1)
             shift == (BITS - 1) - zeros
             step == WalkStep(n, i, zeros, shift, Pow2(shift), i >= Pow2(shift))
         IN  <<step>> \o walk_trace_inverted(step.n_out % Modulus, step.i_out % Modulus)
    ELSE <<>>

\* the iterations of while n > 1 { ... } in compute_expected_proof_length
\* and root_hash, from n = count and i = index
RECURSIVE walk_trace(_, _)
walk_trace(n, i) ==
    IF n > 1
    THEN LET zeros == leading_zeros(n - 1)
             shift == (BITS - 1) - zeros
             step == WalkStep(n, i, zeros, shift, Pow2(shift), i < Pow2(shift))
         IN  <<step>> \o walk_trace(step.n_out % Modulus, step.i_out % Modulus)
    ELSE <<>>

\* verify with the bounds check off by one (index <= count)
IndexedMerkleProof_verify_inclusive(self) ==
    IF ~((self.count = 0 /\ self.index = 0) \/ self.index <= self.count)
    THEN Err(IndexOutOfBounds(self.count, self.index))
    ELSE LET expected_proof_length == compute_expected_proof_length(self)
         IN  IF Len(self.merkle_proof) # expected_proof_length
             THEN Err(UnexpectedProofLength(self.count, self.index,
                                            expected_proof_length,
                                            Len(self.merkle_proof)))
             ELSE Ok(<<>>)

\* IndexedMerkleProof::verify
IndexedMerkleProof_verify(self) ==
    IF ~((self.count = 0 /\ self.index = 0) \/ self.index < self.count)
    THEN Err(IndexOutOfBounds(self.count, self.index))
    ELSE LET expected_proof_length == compute_expected_proof_length(self)
         IN  IF Len(self.merkle_proof) # expected_proof_length
             THEN Err(UnexpectedProofLength(self.count, self.index,
                                            expected_proof_length,
                                            Len(self.merkle_proof)))
             ELSE Ok(<<>>)

\* ------------------------------------------------------------ ChunkWithProof
\* struct ChunkWithProof { proof, chunk } (both files)
Chunk(proof, chunk) == [proof |-> proof, chunk |-> chunk]

Min(a, b) == IF a < b THEN a ELSE b

\* <[u8]>::chunks(size).len(), size > 0
chunks_len(data, size) == (Len(data) + size - 1) \div size

\* chunks_exact in place of chunks: the short last piece is dropped
chunks_exact(data, size) ==
    [k \in 1 .. (Len(data) \div size) |->
        SubSeq(data, (k - 1) * size + 1, k * size)]

\* <[u8]>::chunks(size), size > 0: consecutive pieces, the last one may be shorter
chunks(data, size) ==
    [k \in 1 .. chunks_len(data, size) |->
        SubSeq(data, (k - 1) * size + 1, Min(Len(data), k * size))]

\* .map(Digest::blake2b_hash) / .map(blake2b_hash)
map_blake2b_hash(pieces) == [k \in 1 .. Len(pieces) |-> blake2b_hash(pieces[k])]

\* ChunkWithProof::new that takes the payload one piece too far (nth(index + 1))
ChunkWithProof_new_next_piece(data, index, chunk_size) ==
    IF data = <<>>
    THEN LET proof == IndexedMerkleProof_new(<<blake2b_hash(<<>>)>>, index)
         IN  IF proof.tag = "Ok" THEN Ok(Chunk(proof.val, <<>>)) ELSE proof
    ELSE IF chunk_size = 0 THEN Panic("chunk size must be non-zero")
    ELSE LET pieces == chunks(data, chunk_size)
             proof == IndexedMerkleProof_new(map_blake2b_hash(pieces), index)
         IN  IF proof.tag # "Ok" THEN proof
             ELSE IF index + 1 < Len(pieces) THEN Ok(Chunk(proof.val, pieces[index + 2]))
             ELSE Err(IndexOutOfBounds(chunks_len(data, chunk_size), index))

\* chunk_with_proof.rs  ChunkWithProof::new(data, index, chunk_size)
ChunkWithProof_new(data, index, chunk_size) ==
    IF data = <<>>
    THEN LET proof == IndexedMerkleProof_new(<<blake2b_hash(<<>>)>>, index)
         IN  IF proof.tag = "Ok" THEN Ok(Chunk(proof.val, <<>>)) ELSE proof
    ELSE IF chunk_size = 0 THEN Panic("chunk size must be non-zero")
    ELSE LET pieces == chunks(data, chunk_size)
             proof == IndexedMerkleProof_new(map_blake2b_hash(pieces), index)
         IN  IF proof.tag # "Ok" THEN proof
             ELSE IF index < Len(pieces) THEN Ok(Chunk(proof.val, pieces[index + 1]))
             ELSE Err(IndexOutOfBounds(chunks_len(data, chunk_size), index))

\* verify without the structural check of the proof
ChunkWithProof_verify_unchecked(self) ==
    LET chunk_hash == blake2b_hash(self.chunk)
    IN  IF self.proof.merkle_proof = <<>> THEN FALSE
        ELSE chunk_hash = Head(self.proof.merkle_proof)

\* verify without the comparison of the payload hash
ChunkWithProof_verify_shape_only(self) ==
    IF IndexedMerkleProof_verify(self.proof).tag = "Err" THEN FALSE
    ELSE self.proof.merkle_proof # <<>>

\* verify that compares the payload hash with the last entry (.last())
ChunkWithProof_verify_last(self) ==
    IF IndexedMerkleProof_verify(self.proof).tag = "Err" THEN FALSE
    ELSE LET chunk_hash == blake2b_hash(self.chunk)
         IN  IF self.proof.merkle_proof = <<>> THEN FALSE
             ELSE chunk_hash = self.proof.merkle_proof[Len(self.proof.merkle_proof)]

\* chunk_with_proof.rs  ChunkWithProof::verify
ChunkWithProof_verify(self) ==
    IF IndexedMerkleProof_verify(self.proof).tag = "Err" THEN FALSE
    ELSE LET chunk_hash == blake2b_hash(self.chunk)
         IN  IF self.proof.merkle_proof = <<>> THEN FALSE
             ELSE chunk_hash = Head(self.proof.merkle_proof)

\* usize multiplication: aborts when the build checks overflow, wraps otherwise
usize_mul(a, b, overflow_checks) ==
    IF a * b >= Modulus /\ overflow_checks THEN Panic("attempt to multiply with overflow")
    ELSE Ok((a * b) % Modulus)

\* usize addition, likewise
usize_add(a, b, overflow_checks) ==
    IF a + b >= Modulus /\ overflow_checks THEN Panic("attempt to add with overflow")
    ELSE Ok((a + b) % Modulus)

\* data[start..end].to_vec(): aborts unless start <= end <= data.len()
slice(data, start, end) ==
    IF start > end THEN Panic("slice index starts after end")
    ELSE IF end > Len(data) THEN Panic("range end index out of range")
    ELSE Ok(SubSeq(data, start + 1, end))

\* chunk.rs new without .min(data.len()): every piece cut CHUNK_SIZE long
Chunk_new_unclamped(data, index, overflow_checks) ==
    LET offset == usize_mul(CHUNK_SIZE, index, overflow_checks)
    IN  IF offset.tag = "Panic" THEN offset
        ELSE IF Len(data) < offset.val
        THEN Err(IndexOutOfBounds(chunks_len(data, CHUNK_SIZE), index))
        ELSE IF data = <<>>
        THEN LET proof == IndexedMerkleProof_new(<<blake2b_hash(<<>>)>>, index)
             IN  IF proof.tag = "Ok" THEN Ok(Chunk(proof.val, <<>>)) ELSE proof
        ELSE LET proof == IndexedMerkleProof_new(
                              map_blake2b_hash(chunks(data, CHUNK_SIZE)), index)
                 next == usize_add(index, 1, overflow_checks)
                 end == IF next.tag = "Panic" THEN next
                        ELSE usize_mul(CHUNK_SIZE, next.val, overflow_checks)
                 piece == IF end.tag = "Panic" THEN end
                          ELSE slice(data, offset.val, end.val)
             IN  IF proof.tag # "Ok" THEN proof
                 ELSE IF piece.tag = "Panic" THEN piece
                 ELSE Ok(Chunk(proof.val, piece.val))

\* chunk.rs  ChunkWithProof::new(data, index); overflow_checks is the build
\* profile (debug-assertions on or off)
Chunk_new(data, index, overflow_checks) ==
    LET offset == usize_mul(CHUNK_SIZE, index, overflow_checks)
    IN  IF offset.tag = "Panic" THEN offset
        ELSE IF Len(data) < offset.val
        THEN Err(IndexOutOfBounds(chunks_len(data, CHUNK_SIZE), index))
        ELSE IF data = <<>>
        THEN LET proof == IndexedMerkleProof_new(<<blake2b_hash(<<>>)>>, index)
             IN  IF proof.tag = "Ok" THEN Ok(Chunk(proof.val, <<>>)) ELSE proof
        ELSE LET proof == IndexedMerkleProof_new(
                              map_blake2b_hash(chunks(data, CHUNK_SIZE)), index)
                 next == usize_add(index, 1, overflow_checks)
                 end == IF next.tag = "Panic" THEN next
                        ELSE usize_mul(CHUNK_SIZE, next.val, overflow_checks)
                 piece == IF end.tag = "Panic" THEN end
                          ELSE slice(data, offset.val, Min(Len(data), end.val))
             IN  IF proof.tag # "Ok" THEN proof
                 ELSE IF piece.tag = "Panic" THEN piece
                 ELSE Ok(Chunk(proof.val, piece.val))

\* chunk.rs  ChunkWithProof::is_valid
Chunk_is_valid(self) ==
    LET chunk_hash == blake2b_hash(self.chunk)
    IN  IF self.proof.merkle_proof = <<>> THEN FALSE
        ELSE chunk_hash = Head(self.proof.merkle_proof)

\* chunk.rs  TryFrom<ChunkWithProofDeserializeValidator> for ChunkWithProof
Chunk_try_from(value) ==
    LET candidate == Chunk(value.proof, value.chunk)
    IN  IF Chunk_is_valid(candidate) THEN Ok(candidate) ELSE Err(IncorrectChunkProof)

\* ------------------------------------------- the reference of the tests
\* fn compute_raw_root_from_proof inside reference_root_from_proof
RECURSIVE compute_raw_root_from_proof(_, _, _)
compute_raw_root_from_proof(index, leaf_count, proof) ==
    IF leaf_count = 0 THEN SENTINEL2
    ELSE IF leaf_count = 1 THEN proof[1]
    ELSE LET half == pivot_of(leaf_count)
             last == Len(proof) - 1
         IN  IF index < half
             THEN LET left == compute_raw_root_from_proof(index, half,
                                                          SubSeq(proof, 1, last))
                  IN  hash_pair(AsRef(left), AsRef(proof[last + 1]))
             ELSE LET right == compute_raw_root_from_proof(index - half,
                                                           leaf_count - half,
                                                           SubSeq(proof, 1, last))
                  IN  hash_pair(AsRef(proof[last + 1]), AsRef(right))

\* fn reference_root_from_proof of the tests
reference_root_from_proof(index, count, proof) ==
    hash_pair(to_le_bytes(count), AsRef(compute_raw_root_from_proof(index, count, proof)))

\* -------------------------------------------------------------- bytesrepr
\* bytesrepr::Error
EarlyEndOfStream == [kind |-> "EarlyEndOfStream"]

U32_SERIALIZED_LENGTH == 4

U64_SERIALIZED_LENGTH == 8

\* One hash value on the wire: its Digest::LENGTH bytes (one block).
DIGEST_SERIALIZED_LENGTH == 1

\* value of little-endian bytes
RECURSIVE from_le_bytes(_)
from_le_bytes(bytes) ==
    IF bytes = <<>> THEN 0 ELSE Head(bytes).b + 256 * from_le_bytes(Tail(bytes))

\* the stream after its first n atoms
drop(bytes, n) == SubSeq(bytes, n + 1, Len(bytes))

\* ToBytes for u32 / u64: little-endian, fixed width
u32_to_bytes(n) == le_digits(n, U32_SERIALIZED_LENGTH)

u64_to_bytes(n) == le_digits(n, U64_SERIALIZED_LENGTH)

\* FromBytes for u32 / u64: Ok((value, remainder)) or EarlyEndOfStream
u32_from_bytes(bytes) ==
    IF Len(bytes) < U32_SERIALIZED_LENGTH THEN Err(EarlyEndOfStream)
    ELSE Ok(<<from_le_bytes(SubSeq(bytes, 1, U32_SERIALIZED_LENGTH)),
              drop(bytes, U32_SERIALIZED_LENGTH)>>)

u64_from_bytes(bytes) ==
    IF Len(bytes) < U64_SERIALIZED_LENGTH THEN Err(EarlyEndOfStream)
    ELSE Ok(<<from_le_bytes(SubSeq(bytes, 1, U64_SERIALIZED_LENGTH)),
              drop(bytes, U64_SERIALIZED_LENGTH)>>)

\* ToBytes / FromBytes for Digest: the bytes of the hash, no prefix
Digest_to_bytes(hash) == AsRef(hash)

Digest_from_bytes(bytes) ==
    IF Len(bytes) < DIGEST_SERIALIZED_LENGTH THEN Err(EarlyEndOfStream)
    ELSE Ok(<<bytes[1], drop(bytes, DIGEST_SERIALIZED_LENGTH)>>)

\* the loop of Vec<T>::to_bytes over the items, T = Digest
RECURSIVE append_items(_)
append_items(items) ==
    IF items = <<>> THEN <<>>
    ELSE Digest_to_bytes(Head(items)) \o append_items(Tail(items))

\* ToBytes for Vec<T>::to_bytes, T = Digest: u32 length, then the items
Vec_to_bytes(self) == u32_to_bytes(Len(self)) \o append_items(self)

\* iterator_serialized_length / ToBytes for Vec<T>::serialized_length
Vec_serialized_length(self) ==
    U32_SERIALIZED_LENGTH + Len(self) * DIGEST_SERIALIZED_LENGTH

\* the loop of Vec<T>::from_bytes: for _ in 0..count { T::from_bytes(stream)? }
RECURSIVE read_items(_, _, _)
read_items(count, result, stream) ==
    IF count = 0 THEN Ok(<<result, stream>>)
    ELSE LET item == Digest_from_bytes(stream)
         IN  IF item.tag = "Err" THEN item
             ELSE read_items(count - 1, Append(result, item.val[1]), item.val[2])

\* FromBytes for Vec<T>::from_bytes, T = Digest
Vec_from_bytes(bytes) ==
    LET count == u32_from_bytes(bytes)
    IN  IF count.tag = "Err" THEN count
        ELSE read_items(count.val[1], <<>>, count.val[2])

\* ToBytes / FromBytes for Bytes: u32 length, then the bytes
Bytes_to_bytes(self) == u32_to_bytes(Len(self)) \o self

Bytes_serialized_length(self) == U32_SERIALIZED_LENGTH + Len(self)

Bytes_from_bytes(bytes) ==
    LET size == u32_from_bytes(bytes)
    IN  IF size.tag = "Err" THEN size
        ELSE IF Len(size.val[2]) < size.val[1] THEN Err(EarlyEndOfStream)
        ELSE Ok(<<SubSeq(size.val[2], 1, size.val[1]), drop(size.val[2], size.val[1])>>)

\* ToBytes / FromBytes for IndexedMerkleProof: index, count, merkle_proof
IndexedMerkleProof_to_bytes(self) ==
    u64_to_bytes(self.index) \o u64_to_bytes(self.count)
        \o Vec_to_bytes(self.merkle_proof)

IndexedMerkleProof_serialized_length(self) ==
    U64_SERIALIZED_LENGTH + U64_SERIALIZED_LENGTH
        + Vec_serialized_length(self.merkle_proof)

IndexedMerkleProof_from_bytes(bytes) ==
    LET index == u64_from_bytes(bytes)
        count == IF index.tag = "Err" THEN index ELSE u64_from_bytes(index.val[2])
        merkle_proof == IF count.tag = "Err" THEN count ELSE Vec_from_bytes(count.val[2])
    IN  IF merkle_proof.tag = "Err" THEN merkle_proof
        ELSE Ok(<<Proof(index.val[1], count.val[1], merkle_proof.val[1]),
                  merkle_proof.val[2]>>)

\* chunk_with_proof.rs  ToBytes for ChunkWithProof::to_bytes
ChunkWithProof_to_bytes(self) ==
    Ok(IndexedMerkleProof_to_bytes(self.proof) \o Bytes_to_bytes(self.chunk))

\* chunk_with_proof.rs  ToBytes for ChunkWithProof::serialized_length
ChunkWithProof_serialized_length(self) ==
    IndexedMerkleProof_serialized_length(self.proof)
        + Bytes_serialized_length(self.chunk)

\* from_bytes that takes the proof's remainder for the whole payload
ChunkWithProof_from_bytes_raw_payload(bytes) ==
    LET proof == IndexedMerkleProof_from_bytes(bytes)
    IN  IF proof.tag = "Err" THEN proof
        ELSE Ok(<<Chunk(proof.val[1], proof.val[2]), <<>> >>)

\* from_bytes that runs verify() on the value before returning it
ChunkWithProof_from_bytes_verified(bytes) ==
    LET proof == IndexedMerkleProof_from_bytes(bytes)
        chunk == IF proof.tag = "Err" THEN proof ELSE Bytes_from_bytes(proof.val[2])
    IN  IF chunk.tag = "Err" THEN chunk
        ELSE IF ~ChunkWithProof_verify(Chunk(proof.val[1], chunk.val[1]))
        THEN Err([kind |-> "Formatting"])
        ELSE Ok(<<Chunk(proof.val[1], chunk.val[1]), chunk.val[2]>>)

\* chunk_with_proof.rs  FromBytes for ChunkWithProof::from_bytes:
\* Ok((chunk, remainder)) or the error of a field
ChunkWithProof_from_bytes(bytes) ==
    LET proof == IndexedMerkleProof_from_bytes(bytes)
        chunk == IF proof.tag = "Err" THEN proof ELSE Bytes_from_bytes(proof.val[2])
    IN  IF chunk.tag = "Err" THEN chunk
        ELSE Ok(<<Chunk(proof.val[1], chunk.val[1]), chunk.val[2]>>)

\* --------------------------------------------------------------------- serde
\* chunk_with_proof.rs  derive(Serialize) for ChunkWithProof: the struct as
\* its named fields, in declaration order (the text of the format is not
\* modelled)
ChunkWithProof_serialize(self) ==
    << <<"proof", self.proof>>, <<"chunk", self.chunk>> >>

\* serde::de::Error of the derived Deserialize
UnknownField(name) == [kind |-> "unknown field", field |-> name]

MissingField(name) == [kind |-> "missing field", field |-> name]

\* chunk_with_proof.rs  derive(Deserialize), deny_unknown_fields, and no
\* try_from: the fields read become the value
ChunkWithProof_deserialize(fields) ==
    LET names == {fields[k][1] : k \in DOMAIN fields}
        field(name) == fields[CHOOSE k \in DOMAIN fields : fields[k][1] = name][2]
    IN  IF names \ {"proof", "chunk"} # {}
        THEN Err(UnknownField(CHOOSE n \in names : n \notin {"proof", "chunk"}))
        ELSE IF "proof" \notin names THEN Err(MissingField("proof"))
        ELSE IF "chunk" \notin names THEN Err(MissingField("chunk"))
        ELSE Ok(Chunk(field("proof"), field("chunk")))

\* chunk.rs  derive(Serialize) for ChunkWithProof
Chunk_serialize(self) == << <<"proof", self.proof>>, <<"chunk", self.chunk>> >>

\* chunk.rs  derive(Deserialize) for ChunkWithProofDeserializeValidator,
\* deny_unknown_fields: the fields read, not yet a ChunkWithProof
ChunkWithProofDeserializeValidator_deserialize(fields) ==
    ChunkWithProof_deserialize(fields)

\* deserialization that converts the validator without asking is_valid
Chunk_deserialize_unvalidated(fields) ==
    LET value == ChunkWithProofDeserializeValidator_deserialize(fields)
    IN  IF value.tag = "Err" THEN value
        ELSE Ok(Chunk(value.val.proof, value.val.chunk))

\* chunk.rs  derive(Deserialize) for ChunkWithProof,
\* serde(try_from = "ChunkWithProofDeserializeValidator")
Chunk_deserialize(fields) ==
    LET value == ChunkWithProofDeserializeValidator_deserialize(fields)
    IN  IF value.tag = "Err" THEN value ELSE Chunk_try_from(value.val)

\* ======================================================================
\* The state: one call of the library at a time, as a sender that builds
\* proofs and chunks and a receiver that checks what arrives.
VARIABLES
    op,               \* the call made last
    variant,          \* "chunk_with_proof.rs" or "chunk.rs"
    overflow_checks,  \* build profile of the call
    leaves,           \* leaf sequence handed to IndexedMerkleProof::new
    data,             \* buffer handed to ChunkWithProof::new
    chunk_size,       \* chunk size of the call
    index,            \* index handed to the constructor
    res,              \* what the constructor or IndexedMerkleProof::verify returned
    proof,            \* the IndexedMerkleProof examined
    sent,             \* the chunk the sender built
    chunk,            \* the chunk the receiver got
    verdict,          \* what the receiver's verifier said about chunk
    leaves2,          \* second leaf sequence, when two trees are hashed
    wire,             \* the bytes the chunk travelled as
    decoded           \* what deserialization at the receiver returned

vars == <<op, variant, overflow_checks, leaves, data, chunk_size, index, res,
          proof, sent, chunk, verdict, leaves2, wire, decoded>>

NoProof == Proof(0, 0, <<>>)

NoChunk == Chunk(NoProof, <<>>)

\* nothing was deserialized
NotDecoded == [tag |-> "None"]

\* ---------------------------------------------------------------- inputs
SeqsUpTo(S, n) == UNION {[1 .. k -> S] : k \in 0 .. n}

ByteValues == {Byte(0), Byte(1)}

Buffers == SeqsUpTo(ByteValues, MaxData)

LeafPool ==
    {blake2b_hash(<<Byte(0)>>), blake2b_hash(<<Byte(1)>>),
     hash_pair(AsRef(blake2b_hash(<<Byte(0)>>)), AsRef(blake2b_hash(<<Byte(1)>>))),
     SENTINEL2}

LeafSeqs == SeqsUpTo(LeafPool, MaxLeaves)

\* leaf sequences one longer than those, over two leaf values
LongLeafSeqs ==
    [1 .. MaxLeaves + 1 -> {blake2b_hash(<<Byte(0)>>), blake2b_hash(<<Byte(1)>>)}]

\* the leaf sequences whose roots are compared with each other
PairSeqs == SeqsUpTo(LeafPool \ {SENTINEL2}, MaxPair)

Range(f) == {f[k] : k \in DOMAIN f}

\* The pieces the packagers cut: an empty buffer is one empty piece.
Pieces(d, size) == IF d = <<>> THEN << <<>> >> ELSE chunks(d, size)

PieceHashes(d, size) == map_blake2b_hash(Pieces(d, size))

\* The blobs chunks are forged against.  Byte values are interchangeable
\* (bytes are only hashed and compared), so the first byte is fixed.
ForgeBlobs ==
    {d \in SeqsUpTo(ByteValues, MaxForgeData) : d = <<>> \/ d[1] = Byte(0)}

\* The hashes of the blob's tree, which a peer that knows the blob can put
\* into a sibling list: the leaves, the pairs of neighbouring leaves and the
\* raw root.
ForgeHashes(d, size) ==
    LET lv == PieceHashes(d, size)
        fold == tree_fold1("hash_merkle_tree", [k \in 1 .. Len(lv) |-> <<1, lv[k]>>])
    IN  Range(lv) \cup {fold.val[2]}
        \cup {hash_pair(AsRef(lv[k]), AsRef(lv[k + 1])) : k \in {j \in 1 .. Len(lv) - 1 : j % 2 = 1}}

\* The payloads of a forged chunk: the preimage of each of these hashes (a
\* piece of the blob, or the concatenated bytes of two hashes), and no bytes.
ForgePayloads(d, size) == {x.h : x \in ForgeHashes(d, size)} \cup {<<>>}

\* The constructor of the sender's file.
Constructor(v, d, i, size, checks) ==
    IF v = "chunk.rs" THEN Chunk_new(d, i, checks) ELSE ChunkWithProof_new(d, i, size)

\* The verifier of the receiver's file.
Verifier(v, c) ==
    IF v = "chunk.rs" THEN Chunk_is_valid(c) ELSE ChunkWithProof_verify(c)

Verdict(v, c) == IF Verifier(v, c) THEN "accepted" ELSE "rejected"

\* ------------------------------------------------------------------ Init
Init ==
    /\ op = "init"
    /\ variant = "chunk_with_proof.rs"
    /\ overflow_checks = FALSE
    /\ leaves = <<>>
    /\ data = <<>>
    /\ chunk_size = 0
    /\ index = 0
    /\ res = Ok(<<>>)
    /\ proof = NoProof
    /\ sent = NoChunk
    /\ chunk = NoChunk
    /\ verdict = "unverified"
    /\ leaves2 = <<>>
    /\ wire = <<>>
    /\ decoded = NotDecoded

\* --------------------------------------------------------------- actions
\* No call is in progress.
Idle == op = "init"

\* IndexedMerkleProof::new(leaves, index)
BuildProof ==
    /\ Idle
    /\ \E lv \in LeafSeqs, i \in 0 .. MaxLeaves + 1 :
        LET r == IndexedMerkleProof_new(lv, i)
        IN  /\ op' = "IndexedMerkleProof::new"
            /\ leaves' = lv
            /\ index' = i
            /\ res' = r
            /\ proof' = IF r.tag = "Ok" THEN r.val ELSE NoProof
            /\ variant' = "chunk_with_proof.rs"
            /\ overflow_checks' = FALSE
            /\ data' = <<>>
            /\ chunk_size' = 0
            /\ sent' = NoChunk
            /\ chunk' = NoChunk
            /\ verdict' = "unverified"
            /\ leaves2' = <<>>
            /\ wire' = <<>>
            /\ decoded' = NotDecoded

\* IndexedMerkleProof::verify on a proof value built field by field, as the
\* unit tests and a deserializer do
VerifyProof ==
    /\ Idle
    /\ \E i \in Word, c \in Word, len \in 0 .. BITS + 2 :
        LET p == Proof(i, c, [k \in 1 .. len |-> SENTINEL0])
        IN  /\ op' = "IndexedMerkleProof::verify"
            /\ proof' = p
            /\ res' = IndexedMerkleProof_verify(p)
            /\ index' = i
            /\ leaves' = <<>>
            /\ variant' = "chunk_with_proof.rs"
            /\ overflow_checks' = FALSE
            /\ data' = <<>>
            /\ chunk_size' = 0
            /\ sent' = NoChunk
            /\ chunk' = NoChunk
            /\ verdict' = "unverified"
            /\ leaves2' = <<>>
            /\ wire' = <<>>
            /\ decoded' = NotDecoded

\* hash_merkle_tree(leaves)
HashMerkleTree ==
    /\ Idle
    /\ \E lv \in LeafSeqs \cup LongLeafSeqs :
            /\ op' = "hash_merkle_tree"
            /\ leaves' = lv
            /\ res' = Ok(hash_merkle_tree(lv))
            /\ index' = 0
            /\ proof' = NoProof
            /\ variant' = "chunk_with_proof.rs"
            /\ overflow_checks' = FALSE
            /\ data' = <<>>
            /\ chunk_size' = 0
            /\ sent' = NoChunk
            /\ chunk' = NoChunk
            /\ verdict' = "unverified"
            /\ leaves2' = <<>>
            /\ wire' = <<>>
            /\ decoded' = NotDecoded

\* hash_merkle_tree of two leaf sequences, to compare the roots
HashTwoTrees ==
    /\ Idle
    /\ \E a \in PairSeqs, b \in PairSeqs :
            /\ op' = "hash_merkle_tree twice"
            /\ leaves' = a
            /\ leaves2' = b
            /\ res' = Ok(<<hash_merkle_tree(a), hash_merkle_tree(b)>>)
            /\ index' = 0
            /\ proof' = NoProof
            /\ variant' = "chunk_with_proof.rs"
            /\ overflow_checks' = FALSE
            /\ data' = <<>>
            /\ chunk_size' = 0
            /\ sent' = NoChunk
            /\ chunk' = NoChunk
            /\ verdict' = "unverified"
            /\ wire' = <<>>
            /\ decoded' = NotDecoded

\* test_indexed_merkle_proof(index, count): a proof of the expected length,
\* of zero hashes as in the test or of pairwise different hashes
test_indexed_merkle_proof(i, c, entries) ==
    LET expected_proof_length == compute_expected_proof_length(Proof(i, c, <<>>))
    IN  Proof(i, c, [k \in 1 .. expected_proof_length |->
                        IF entries = "zero" THEN SENTINEL0
                        ELSE blake2b_hash(<<Byte(k)>>)])

\* IndexedMerkleProof::root_hash on such a proof
RootOfProof ==
    /\ Idle
    /\ \E i \in Word, c \in Word, entries \in {"zero", "distinct"} :
        LET p == test_indexed_merkle_proof(i, c, entries)
        IN  /\ op' = "IndexedMerkleProof::root_hash"
            /\ proof' = p
            /\ res' = Ok(root_hash(p))
            /\ index' = i
            /\ leaves' = <<>>
            /\ variant' = "chunk_with_proof.rs"
            /\ overflow_checks' = FALSE
            /\ data' = <<>>
            /\ chunk_size' = 0
            /\ sent' = NoChunk
            /\ chunk' = NoChunk
            /\ verdict' = "unverified"
            /\ leaves2' = <<>>
            /\ wire' = <<>>
            /\ decoded' = NotDecoded

\* IndexedMerkleProof::root_hash on a proof value nobody verified: any index,
\* any count, a sibling list of any length (deep_proof_doesnt_kill_stack
\* builds its proof field by field and calls root_hash without verify)
RootOfUnverifiedProof ==
    /\ Idle
    /\ \E i \in Word, c \in Word, len \in 0 .. BITS + 2 :
        LET p == Proof(i, c, [k \in 1 .. len |-> blake2b_hash(<<Byte(k)>>)])
        IN  /\ op' = "IndexedMerkleProof::root_hash unverified"
            /\ proof' = p
            /\ res' = Ok(root_hash(p))
            /\ index' = i
            /\ leaves' = <<>>
            /\ variant' = "chunk_with_proof.rs"
            /\ overflow_checks' = FALSE
            /\ data' = <<>>
            /\ chunk_size' = 0
            /\ sent' = NoChunk
            /\ chunk' = NoChunk
            /\ verdict' = "unverified"
            /\ leaves2' = <<>>
            /\ wire' = <<>>
            /\ decoded' = NotDecoded

\* chunk_with_proof.rs  ChunkWithProof::new(data, index, chunk_size)
NewChunk ==
    /\ Idle
    /\ \E d \in Buffers, i \in Word, size \in 0 .. MaxChunkSize :
        LET r == ChunkWithProof_new(d, i, size)
        IN  /\ op' = "ChunkWithProof::new"
            /\ variant' = "chunk_with_proof.rs"
            /\ overflow_checks' = FALSE
            /\ data' = d
            /\ chunk_size' = size
            /\ index' = i
            /\ res' = r
            /\ sent' = IF r.tag = "Ok" THEN r.val ELSE NoChunk
            /\ proof' = IF r.tag = "Ok" THEN r.val.proof ELSE NoProof
            /\ leaves' = <<>>
            /\ chunk' = NoChunk
            /\ verdict' = "unverified"
            /\ leaves2' = <<>>
            /\ wire' = <<>>
            /\ decoded' = NotDecoded

\* chunk.rs  ChunkWithProof::new(data, index)
NewChunkFixed ==
    /\ Idle
    /\ \E d \in Buffers, i \in Word, checks \in BOOLEAN :
        LET r == Chunk_new(d, i, checks)
        IN  /\ op' = "ChunkWithProof::new"
            /\ variant' = "chunk.rs"
            /\ overflow_checks' = checks
            /\ data' = d
            /\ chunk_size' = CHUNK_SIZE
            /\ index' = i
            /\ res' = r
            /\ sent' = IF r.tag = "Ok" THEN r.val ELSE NoChunk
            /\ proof' = IF r.tag = "Ok" THEN r.val.proof ELSE NoProof
            /\ leaves' = <<>>
            /\ chunk' = NoChunk
            /\ verdict' = "unverified"
            /\ leaves2' = <<>>
            /\ wire' = <<>>
            /\ decoded' = NotDecoded

Built == op = "ChunkWithProof::new" /\ res.tag = "Ok"

\* The form c travels in: the bytesrepr encoding, or for chunk.rs, which
\* has the serde form only, its serialized fields.
Wire(v, c) ==
    IF v = "chunk.rs" THEN Chunk_serialize(c) ELSE ChunkWithProof_to_bytes(c).val

\* The deserialization of the receiver's file, from what was received.
Deserialize(v, c, bytes) ==
    IF v = "chunk.rs" THEN Chunk_deserialize(bytes)
    ELSE ChunkWithProof_from_bytes(bytes)

\* The receiver gets c, deserializes it and runs its verifier on it.
Receive(how, c) ==
    /\ op' = how
    /\ chunk' = c
    /\ verdict' = Verdict(variant, c)
    /\ wire' = Wire(variant, c)
    /\ decoded' = Deserialize(variant, c, wire')
    /\ UNCHANGED <<variant, overflow_checks, leaves, data, chunk_size, index,
                   res, proof, sent, leaves2>>

\* the bytes of a built chunk arrive cut short
ReceiveTruncated ==
    /\ Built
    /\ variant = "chunk_with_proof.rs"
    /\ LET bytes == ChunkWithProof_to_bytes(sent).val
       IN  \E n \in 0 .. Len(bytes) - 1 :
             /\ op' = "receive_truncated"
             /\ wire' = SubSeq(bytes, 1, n)
             /\ decoded' = ChunkWithProof_from_bytes(SubSeq(bytes, 1, n))
             /\ UNCHANGED <<variant, overflow_checks, leaves, data, chunk_size,
                            index, res, proof, sent, chunk, verdict, leaves2>>

\* the chunk arrives as built
ReceiveIntact == Built /\ Receive("receive", sent)

\* one byte of the payload was changed on the way
ReceiveTamperedPayload ==
    /\ Built
    /\ \E k \in 1 .. Len(sent.chunk), b \in ByteValues :
          /\ b # sent.chunk[k]
          /\ Receive("receive_tampered_payload",
                     Chunk(sent.proof, [sent.chunk EXCEPT ![k] = b]))

ReplacementHashes(p) ==
    Range(p.merkle_proof)
    \cup {SENTINEL0, blake2b_hash(<<Byte(0)>>), blake2b_hash(<<Byte(1)>>)}

\* one entry of the sibling list was replaced on the way
ReceiveTamperedSibling ==
    /\ Built
    /\ \E k \in 1 .. Len(sent.proof.merkle_proof), h \in ReplacementHashes(sent.proof) :
          /\ h # sent.proof.merkle_proof[k]
          /\ Receive("receive_tampered_sibling",
                     Chunk([sent.proof EXCEPT !.merkle_proof[k] = h], sent.chunk))

\* a peer that knows blob d sends a chunk of its own making
ReceiveForged ==
    /\ Idle
    /\ \E v \in {"chunk_with_proof.rs", "chunk.rs"}, d \in ForgeBlobs :
      \E size \in (IF v = "chunk.rs" THEN {CHUNK_SIZE} ELSE 1 .. MaxChunkSize) :
         \E i \in 0 .. MaxForge, c \in 0 .. MaxForge,
            mp \in SeqsUpTo(ForgeHashes(d, size), MaxForgeLen),
            payload \in ForgePayloads(d, size) :
            LET forged == Chunk(Proof(i, c, mp), payload)
            IN  /\ op' = "receive_forged"
                /\ variant' = v
                /\ data' = d
                /\ chunk_size' = size
                /\ chunk' = forged
                /\ verdict' = Verdict(v, forged)
                /\ overflow_checks' = FALSE
                /\ leaves' = <<>>
                /\ index' = 0
                /\ res' = Ok(<<>>)
                /\ proof' = NoProof
                /\ sent' = NoChunk
                /\ leaves2' = <<>>
                /\ wire' = Wire(v, forged)
                /\ decoded' = Deserialize(v, forged, wire')

\* The call is over: its values are dropped, nothing is kept between calls.
Finish ==
    /\ ~Idle
    /\ op' = "init"
    /\ variant' = "chunk_with_proof.rs"
    /\ overflow_checks' = FALSE
    /\ leaves' = <<>>
    /\ data' = <<>>
    /\ chunk_size' = 0
    /\ index' = 0
    /\ res' = Ok(<<>>)
    /\ proof' = NoProof
    /\ sent' = NoChunk
    /\ chunk' = NoChunk
    /\ verdict' = "unverified"
    /\ leaves2' = <<>>
    /\ wire' = <<>>
    /\ decoded' = NotDecoded

Next ==
    \/ Finish
    \/ BuildProof
    \/ VerifyProof
    \/ NewChunk
    \/ NewChunkFixed
    \/ ReceiveIntact
    \/ ReceiveTamperedPayload
    \/ ReceiveTamperedSibling
    \/ ReceiveForged
    \/ ReceiveTruncated
    \/ HashMerkleTree
    \/ HashTwoTrees
    \/ RootOfProof
    \/ RootOfUnverifiedProof

Spec == Init /\ [][Next]_vars

\* ======================================================================
\* Properties
\* ======================================================================
Built_new == op = "IndexedMerkleProof::new" /\ res.tag = "Ok"

Received == op \in {"receive", "receive_tampered_payload",
                    "receive_tampered_sibling", "receive_forged"}

\* number of pieces the packagers cut data into (one for an empty buffer)
PieceCount == Len(Pieces(data, chunk_size))

\* the root the receiver trusts for the blob `data`
TrustedRoot == hash_merkle_tree(PieceHashes(data, chunk_size))

\* C1: for every non-empty leaf sequence and every index below its length,
\* IndexedMerkleProof::new succeeds and the root_hash of the proof equals
\* hash_merkle_tree of the leaves, for every leaf count (1, powers of two
\* and others).
C1_ProofRootAgreement ==
    (op = "IndexedMerkleProof::new" /\ leaves # <<>> /\ index < Len(leaves))
        => /\ res.tag = "Ok"
           /\ root_hash(res.val) = hash_merkle_tree(leaves)

C1_Witness ==
    /\ Built_new
    /\ Len(leaves) = 3
    /\ index = 2
    /\ root_hash(proof) = hash_merkle_tree(leaves)

\* C2: a chunk of any making that chunk_with_proof.rs verify() accepts and
\* whose proof reconstructs the root of the blob carries the blob's piece
\* count, an index below it, and exactly the piece at that index.
C2_AcceptedChunkIsPiece ==
    (/\ Received
     /\ variant = "chunk_with_proof.rs"
     /\ verdict = "accepted"
     /\ root_hash(chunk.proof) = TrustedRoot)
        => /\ chunk.proof.count = PieceCount
           /\ chunk.proof.index < PieceCount
           /\ chunk.chunk = Pieces(data, chunk_size)[chunk.proof.index + 1]

C2_Witness ==
    /\ op = "receive_forged"
    /\ variant = "chunk_with_proof.rs"
    /\ verdict = "accepted"
    /\ root_hash(chunk.proof) = TrustedRoot
    /\ PieceCount = 3
    /\ chunk.proof.index = 2

\* C3: for every buffer, chunk size >= 1 and index below the piece count
\* (index 0 for an empty buffer), ChunkWithProof::new succeeds and the
\* verifier of the same file (verify / is_valid) accepts the chunk.
C3_BuiltChunkVerifies ==
    /\ (op = "ChunkWithProof::new" /\ chunk_size >= 1 /\ index < PieceCount)
          => /\ res.tag = "Ok"
             /\ Verifier(variant, res.val)
    /\ (op = "receive" /\ chunk_size >= 1) => verdict = "accepted"

C3_Witness ==
    /\ op = "receive"
    /\ PieceCount = 3
    /\ index = 1
    /\ Len(data) = 5
    /\ verdict = "accepted"

PowersOfTwo == {Pow2(k) : k \in 0 .. BITS - 1}

\* largest power of two strictly below n (n >= 2), found by search
LargestPowerOfTwoBelow(n) ==
    CHOOSE p \in PowersOfTwo : p < n /\ 2 * p >= n

\* number of steps of the path walk for (count, index)
RECURSIVE WalkSteps(_, _)
WalkSteps(n, i) ==
    IF n <= 1 THEN 0
    ELSE LET half == LargestPowerOfTwoBelow(n)
         IN  IF i < half THEN 1 + WalkSteps(half, i)
             ELSE 1 + WalkSteps(n - half, i - half)

\* the sibling-list length a proof for (count, index) has to have
ExpectedLength(count, i) == IF count = 0 THEN 0 ELSE 1 + WalkSteps(count, i)

\* C4: IndexedMerkleProof::verify returns IndexOutOfBounds exactly when
\* index >= count and not (count = 0 and index = 0), whatever the list
\* length; otherwise UnexpectedProofLength exactly when the list length
\* differs from the expected one; otherwise Ok.
C4_VerifyTaxonomy ==
    op = "IndexedMerkleProof::verify"
        => LET i == proof.index
               c == proof.count
               len == Len(proof.merkle_proof)
           IN  IF i >= c /\ ~(c = 0 /\ i = 0)
               THEN res = Err(IndexOutOfBounds(c, i))
               ELSE IF len # ExpectedLength(c, i)
               THEN res = Err(UnexpectedProofLength(c, i, ExpectedLength(c, i), len))
               ELSE res = Ok(<<>>)

\* the index check wins over a wrong length
C4_Witness ==
    /\ op = "IndexedMerkleProof::verify"
    /\ proof.index = 23
    /\ proof.count = 4
    /\ Len(proof.merkle_proof) = 5
    /\ res = Err(IndexOutOfBounds(4, 23))

\* C5: for n >= 1 leaves and index < n, the sibling list built by
\* IndexedMerkleProof::new has exactly compute_expected_proof_length()
\* entries, so verify() of every built proof is Ok.
C5_BuiltLength ==
    (op = "IndexedMerkleProof::new" /\ leaves # <<>> /\ index < Len(leaves))
        => /\ res.tag = "Ok"
           /\ Len(res.val.merkle_proof)
                 = compute_expected_proof_length(Proof(index, Len(leaves), <<>>))
           /\ IndexedMerkleProof_verify(res.val) = Ok(<<>>)

C5_Witness ==
    /\ Built_new
    /\ Len(leaves) = 5
    /\ index = 4
    /\ Len(proof.merkle_proof) = 2
    /\ IndexedMerkleProof_verify(proof) = Ok(<<>>)

\* C6: the chunk verifier rejects every chunk whose embedded proof fails
\* the structural verify, also when the payload hashes to sibling 0.
C6_StructuralFailureRejects ==
    (Received /\ IndexedMerkleProof_verify(chunk.proof).tag = "Err")
        => verdict = "rejected"

\* C7: changing one byte of the payload of a built chunk, or replacing one
\* sibling entry by a different hash, gives a chunk that the verifier
\* rejects or whose proof reconstructs another root.
C7_TamperDetected ==
    op \in {"receive_tampered_payload", "receive_tampered_sibling"}
        => \/ verdict = "rejected"
           \/ root_hash(chunk.proof) # root_hash(sent.proof)

C7_Witness ==
    /\ op = "receive_tampered_sibling"
    /\ Len(sent.proof.merkle_proof) = 3
    /\ chunk.proof.merkle_proof[3] # sent.proof.merkle_proof[3]
    /\ verdict = "accepted"
    /\ root_hash(chunk.proof) # root_hash(sent.proof)

\* C8: chunk_with_proof.rs verify() depends on the payload, index, count,
\* the sibling-list length and sibling 0 only: replacing entries at
\* positions >= 1 never changes its result, so it accepts chunks whose
\* reconstructed root is not the root of the blob.
C8_VerifyIgnoresUpperSiblings ==
    (Received /\ variant = "chunk_with_proof.rs")
        => \A k \in 2 .. Len(chunk.proof.merkle_proof),
              h \in ReplacementHashes(chunk.proof) \cup {SENTINEL2} :
                ChunkWithProof_verify(
                    Chunk([chunk.proof EXCEPT !.merkle_proof[k] = h], chunk.chunk))
                  = (verdict = "accepted")

C8_Witness ==
    /\ op = "receive_forged"
    /\ variant = "chunk_with_proof.rs"
    /\ Len(chunk.proof.merkle_proof) >= 2
    /\ verdict = "accepted"
    /\ root_hash(chunk.proof) # TrustedRoot

\* C9: for an empty buffer and any chunk size, chunk 0 is built with an
\* empty payload and the one-entry sibling list <<hash(empty)>>, count 1;
\* chunk 1 fails with IndexOutOfBounds{count = 1, index = 1}; an empty
\* buffer is never reported as having zero chunks.
C9_EmptyBuffer ==
    (op = "ChunkWithProof::new" /\ data = <<>>)
        => /\ index = 0 => /\ res.tag = "Ok"
                           /\ res.val.chunk = <<>>
                           /\ res.val.proof.merkle_proof = <<blake2b_hash(<<>>)>>
                           /\ res.val.proof.count = 1
           /\ index = 1 => res = Err(IndexOutOfBounds(1, 1))
           /\ (res.tag = "Err" /\ res.err.kind = "IndexOutOfBounds") => res.err.count # 0

\* C10: for a non-empty buffer of n pieces and every index >= n,
\* ChunkWithProof::new fails with IndexOutOfBounds{count = n, index}.
C10_OutOfBounds ==
    (op = "ChunkWithProof::new" /\ data # <<>> /\ chunk_size >= 1 /\ index >= PieceCount)
        => res = Err(IndexOutOfBounds(PieceCount, index))

\* ceil(L / S), found by search
CeilDiv(L, S) == CHOOSE c \in 0 .. L : c * S >= L /\ (c = 0 \/ (c - 1) * S < L)

\* C11: for a non-empty buffer of length L, chunk size S >= 1 and index
\* i < ceil(L / S), the chunk built has proof.count = ceil(L / S),
\* proof.index = i and payload data[i*S .. min(L, (i+1)*S)] unchanged.
C11_BuiltChunkContents ==
    (/\ op = "ChunkWithProof::new"
     /\ data # <<>>
     /\ chunk_size >= 1
     /\ index < CeilDiv(Len(data), chunk_size))
        => /\ res.tag = "Ok"
           /\ res.val.proof.count = CeilDiv(Len(data), chunk_size)
           /\ res.val.proof.index = index
           /\ res.val.chunk = SubSeq(data, index * chunk_size + 1,
                                     Min(Len(data), (index + 1) * chunk_size))

\* the short last piece of a five-byte buffer, fixed chunk size
C11_Witness ==
    /\ op = "ChunkWithProof::new"
    /\ variant = "chunk.rs"
    /\ Len(data) = 5
    /\ index = 2
    /\ res.tag = "Ok"
    /\ res.val.proof.count = 3
    /\ res.val.chunk = <<data[5]>>

\* C12: IndexedMerkleProof::new over no leaves returns the proof
\* (index 0, count 0, no siblings) for index 0 and fails with
\* EmptyProofMustHaveIndex{index} for every other index, never with
\* IndexOutOfBounds.
C12_EmptyLeaves ==
    (op = "IndexedMerkleProof::new" /\ leaves = <<>>)
        => IF index = 0 THEN res = Ok(Proof(0, 0, <<>>))
           ELSE res = Err(EmptyProofMustHaveIndex(index))

C12_Witness ==
    /\ op = "IndexedMerkleProof::new"
    /\ leaves = <<>>
    /\ index = 3
    /\ res = Err(EmptyProofMustHaveIndex(3))

\* C13: IndexedMerkleProof::new over n >= 1 leaves fails with
\* IndexOutOfBounds{count = n, index} for every index >= n and succeeds
\* for every index < n.
C13_IndexOutOfBounds ==
    (op = "IndexedMerkleProof::new" /\ leaves # <<>>)
        => IF index >= Len(leaves)
           THEN res = Err(IndexOutOfBounds(Len(leaves), index))
           ELSE res.tag = "Ok"

C13_Witness ==
    /\ op = "IndexedMerkleProof::new"
    /\ Len(leaves) = 3
    /\ index = 4
    /\ res = Err(IndexOutOfBounds(3, 4))

\* C14: under the collision-free hash, hash_merkle_tree is injective on
\* leaf sequences: sequences of different length (also [hash_pair(a, b)]
\* against [a, b]) or with a different value at some position have
\* different roots, and equal sequences have equal roots.
C14_RootInjective ==
    op = "hash_merkle_tree twice"
        => ((res.val[1] = res.val[2]) <=> (leaves = leaves2))

\* the two sequences whose raw pairwise-reduction roots coincide
C14_Witness ==
    /\ op = "hash_merkle_tree twice"
    /\ leaves = <<hash_pair(AsRef(blake2b_hash(<<Byte(0)>>)),
                            AsRef(blake2b_hash(<<Byte(1)>>)))>>
    /\ leaves2 = <<blake2b_hash(<<Byte(0)>>), blake2b_hash(<<Byte(1)>>)>>
    /\ hash_merkle_tree_raw(leaves) = hash_merkle_tree_raw(leaves2)
    /\ res.val[1] # res.val[2]

EmptyRoot == hash_pair(to_le_bytes(0), AsRef(SENTINEL2))

C16_DeserializeRejectsMalformed ==
    (/\ Received
     /\ \/ Len(chunk.proof.merkle_proof) # compute_expected_proof_length(chunk.proof)
        \/ Len(chunk.chunk) > chunk_size)
        => decoded.tag = "Err"

C18_NewNeverAborts ==
    op = "ChunkWithProof::new"
        => \/ res.tag = "Ok"
           \/ res.tag = "Err" /\ res.err.kind = "IndexOutOfBounds"

\* C19: for every (index, count), index >= count included, and a sibling
\* list of the expected length, root_hash returns what the recursive
\* reference returns, whose half is the largest power of two strictly
\* below the leaf count.
C19_RootHashAgreesWithReference ==
    op = "IndexedMerkleProof::root_hash"
        => /\ res.val = reference_root_from_proof(proof.index, proof.count,
                                                  proof.merkle_proof)
           /\ proof.count >= 2 => pivot_of(proof.count) = LargestPowerOfTwoBelow(proof.count)

\* an index beyond the count (every step of the walk goes right), distinct siblings
C19_Witness ==
    /\ op = "IndexedMerkleProof::root_hash"
    /\ proof.count = 6
    /\ proof.index = 7
    /\ Len(proof.merkle_proof) = 3
    /\ proof.merkle_proof[2] # proof.merkle_proof[3]
    /\ res.val = hash_pair(to_le_bytes(6),
                           AsRef(hash_pair(AsRef(proof.merkle_proof[3]),
                                           AsRef(hash_pair(AsRef(proof.merkle_proof[2]),
                                                           AsRef(proof.merkle_proof[1]))))))

\* raw(leaves): one leaf is itself; n >= 2 leaves split at the largest
\* power of two strictly below n
RECURSIVE RawRoot(_)
RawRoot(lv) ==
    IF Len(lv) = 1 THEN lv[1]
    ELSE LET p == LargestPowerOfTwoBelow(Len(lv))
         IN  hash_pair(AsRef(RawRoot(SubSeq(lv, 1, p))),
                       AsRef(RawRoot(SubSeq(lv, p + 1, Len(lv)))))

\* C20: hash_merkle_tree over n >= 1 leaves is hash_pair(8 little-endian
\* bytes of n, raw(leaves)): the pairwise fold with the odd element carried
\* forward gives the tree the reconstructor's pivot rule assumes.
C20_TreeShape ==
    (op = "hash_merkle_tree" /\ leaves # <<>>)
        => res.val = hash_pair(to_le_bytes(Len(leaves)), AsRef(RawRoot(leaves)))

\* six leaves a..f reduce to hash_pair(hash_pair(ab, cd), ef)
C20_Witness ==
    /\ op = "hash_merkle_tree"
    /\ Len(leaves) = 6
    /\ leaves[1] # leaves[2]
    /\ res.val =
         hash_pair(to_le_bytes(6),
           AsRef(hash_pair(
             AsRef(hash_pair(AsRef(hash_pair(AsRef(leaves[1]), AsRef(leaves[2]))),
                             AsRef(hash_pair(AsRef(leaves[3]), AsRef(leaves[4]))))),
             AsRef(hash_pair(AsRef(leaves[5]), AsRef(leaves[6]))))))

\* C21: every proof IndexedMerkleProof::new returns over a non-empty leaf
\* sequence has count = number of leaves, index = the requested index,
\* index < count, and the leaf at that index as sibling-list element 0.
C21_BuiltProofFields ==
    (op = "IndexedMerkleProof::new" /\ leaves # <<>> /\ res.tag = "Ok")
        => /\ res.val.count = Len(leaves)
           /\ res.val.index = index
           /\ res.val.index < res.val.count
           /\ res.val.merkle_proof # <<>>
           /\ res.val.merkle_proof[1] = leaves[index + 1]

\* the leaf in the middle of five, different from its neighbours
C21_Witness ==
    /\ Built_new
    /\ Len(leaves) = 5
    /\ index = 2
    /\ leaves[3] # leaves[2]
    /\ leaves[3] # leaves[4]
    /\ proof.count = 5
    /\ proof.index = 2
    /\ proof.merkle_proof[1] = leaves[3]

\* C22: for every (index, count) of the word, index >= count included,
\* compute_expected_proof_length is at most BITS + 1 (65 for u64), and in
\* every iteration of the walk leading_zeros(n - 1) is at most BITS - 1, the
\* shift amount is within 0 .. BITS - 1, the pivot fits the word, and
\* n - pivot and i - pivot are not negative.
C22_WalkInRange ==
    op = "IndexedMerkleProof::root_hash"
        => LET steps == walk_trace(proof.count, proof.index)
               l == compute_expected_proof_length(proof)
           IN  /\ l <= BITS + 1
               /\ l = Len(proof.merkle_proof)
               /\ proof.count # 0 => l = 1 + Len(steps)
               /\ \A k \in DOMAIN steps :
                     /\ steps[k].n - 1 \in Word
                     /\ steps[k].zeros \in 0 .. BITS - 1
                     /\ steps[k].shift \in 0 .. BITS - 1
                     /\ steps[k].pivot \in Word
                     /\ steps[k].n_out \in Word
                     /\ steps[k].i_out \in Word

\* the longest walk (the largest count, index 0: BITS steps to the left)
\* ends with BITS + 1 expected entries
C22_Witness ==
    /\ op = "IndexedMerkleProof::root_hash"
    /\ proof.count = Modulus - 1
    /\ proof.index = 0
    /\ Len(walk_trace(proof.count, proof.index)) = BITS
    /\ Len(proof.merkle_proof) = BITS + 1

\* the path the iterations build: path <<= 1, and path |= 1 on a step right
RECURSIVE PathOf(_, _)
PathOf(steps, path) ==
    IF steps = <<>> THEN path
    ELSE PathOf(Tail(steps),
                ((path * 2) % Modulus) + (IF Head(steps).left THEN 0 ELSE 1))

\* number of nested two-operand hashes of a hash term over plain entries
RECURSIVE PairDepth(_)
PairDepth(t) ==
    IF "h" \in DOMAIN t /\ Len(t.h) = 2
    THEN LET a == PairDepth(t.h[1])
             b == PairDepth(t.h[2])
         IN  1 + (IF a > b THEN a ELSE b)
    ELSE 0

\* C23: root_hash returns for every (index, count, sibling list), verified
\* or not: every iteration of the path walk makes n smaller, there are at
\* most BITS iterations (64 for u64), and the raw root is the leaf entry
\* with one hash_pair per sibling entry after the first.
C23_RootHashTerminates ==
    op = "IndexedMerkleProof::root_hash unverified"
        => LET steps == walk_trace(proof.count, proof.index)
               len == Len(proof.merkle_proof)
               raw_root == res.val.h[U64_SERIALIZED_LENGTH + 1]
           IN  /\ res.tag = "Ok"
               /\ Len(steps) <= BITS
               /\ \A k \in DOMAIN steps : steps[k].n_out < steps[k].n
               /\ \A k \in DOMAIN steps : steps[k].n_out >= 1
               /\ path_walk(0, proof.count, proof.index) = PathOf(steps, 0)
               /\ PairDepth(raw_root) = IF len = 0 THEN 0 ELSE len - 1

\* a sibling list two longer than BITS + 1, the most verify() lets through,
\* with an index out of bounds
C23_Witness ==
    /\ op = "IndexedMerkleProof::root_hash unverified"
    /\ Len(proof.merkle_proof) = BITS + 2
    /\ proof.index = proof.count
    /\ proof.count = Modulus - 1
    /\ IndexedMerkleProof_verify(proof).tag = "Err"
    /\ Len(walk_trace(proof.count, proof.index)) = BITS - 1
    /\ PairDepth(res.val.h[U64_SERIALIZED_LENGTH + 1]) = BITS + 1

\* C24: IndexedMerkleProof::new never reaches unreachable!(): for every leaf
\* sequence and every index, in or out of bounds, the fold meets at most
\* one proof accumulator and the call returns Ok or an error value.
C24_UnreachableNeverTaken ==
    op = "IndexedMerkleProof::new"
        => /\ res.tag \in {"Ok", "Err"}
           /\ res.tag = "Ok" => Len(res.val.merkle_proof) <= Len(leaves)
           /\ res.tag = "Err" => index >= Len(leaves)

\* the accumulator of leaf 1 of four meets two hash carriers: its left
\* neighbour, then the pair to its right
C24_Witness ==
    /\ Built_new
    /\ Len(leaves) = 4
    /\ index = 1
    /\ proof.merkle_proof =
          <<leaves[2], leaves[1], hash_pair(AsRef(leaves[3]), AsRef(leaves[4]))>>

Sentinels == {SENTINEL0, SENTINEL1, SENTINEL2}

\* C25: no sentinel is taken for a genuine leaf: IndexedMerkleProof::new and
\* hash_merkle_tree over leaves with a sentinel among them do not succeed,
\* and verify() of a proof with count >= 1 whose sibling-list element 0 is
\* a sentinel is not Ok.
C25_SentinelsRejected ==
    /\ (op \in {"IndexedMerkleProof::new", "hash_merkle_tree"}
           /\ \E k \in DOMAIN leaves : leaves[k] \in Sentinels)
          => res.tag # "Ok"
    /\ (op = "IndexedMerkleProof::verify"
           /\ proof.count >= 1
           /\ proof.merkle_proof # <<>>
           /\ proof.merkle_proof[1] \in Sentinels)
          => res.tag # "Ok"

C27_MalformedChunkDeserializes ==
    (/\ op = "receive_tampered_sibling"
     /\ variant = "chunk_with_proof.rs"
     /\ chunk.proof.merkle_proof[1] # sent.proof.merkle_proof[1])
        => /\ chunk.proof.merkle_proof[1] # blake2b_hash(chunk.chunk)
           /\ wire = ChunkWithProof_to_bytes(chunk).val
           /\ decoded = Ok(<<chunk, <<>> >>)
           /\ ChunkWithProof_deserialize(ChunkWithProof_serialize(chunk)) = Ok(chunk)
           /\ ~ChunkWithProof_verify(decoded.val[1])
           /\ verdict = "rejected"

\* the leaf entry of a three-entry proof replaced by another piece's hash
C27_Witness ==
    /\ op = "receive_tampered_sibling"
    /\ variant = "chunk_with_proof.rs"
    /\ Len(sent.proof.merkle_proof) = 3
    /\ chunk.proof.merkle_proof[1] # sent.proof.merkle_proof[1]
    /\ chunk.proof.merkle_proof[1] = sent.proof.merkle_proof[2]
    /\ decoded.tag = "Ok"
    /\ decoded.val[1] = chunk
    /\ decoded.val[1] # sent
    /\ IndexedMerkleProof_verify(decoded.val[1].proof) = Ok(<<>>)
    /\ ~ChunkWithProof_verify(decoded.val[1])

\* C28: chunk.rs deserialization goes through the validator: the serialized
\* form of a chunk deserializes to an equal chunk when the hash of its
\* payload is sibling-list element 0, and fails with IncorrectChunkProof,
\* giving no chunk, when it is another hash or the list is empty.
C28_ValidatedDeserialization ==
    (Received /\ variant = "chunk.rs")
        => /\ wire = Chunk_serialize(chunk)
           /\ IF chunk.proof.merkle_proof = <<>> THEN decoded = Err(IncorrectChunkProof)
              ELSE IF blake2b_hash(chunk.chunk) # chunk.proof.merkle_proof[1]
              THEN decoded = Err(IncorrectChunkProof)
              ELSE decoded = Ok(chunk)

\* two pieces, element 0 of the first chunk replaced by the hash of the
\* other piece (what swap(0, 1) of the test puts there)
C28_Witness ==
    /\ op = "receive_tampered_sibling"
    /\ variant = "chunk.rs"
    /\ sent.proof.count = 2
    /\ sent.proof.index = 0
    /\ chunk.proof.merkle_proof[1] = sent.proof.merkle_proof[2]
    /\ chunk.proof.merkle_proof[1] # sent.proof.merkle_proof[1]
    /\ decoded = Err(IncorrectChunkProof)
    /\ Chunk_deserialize(Chunk_serialize(sent)) = Ok(sent)

\* the sequences of a sequence, one after the other
RECURSIVE Concat(_)
Concat(seqs) == IF seqs = <<>> THEN <<>> ELSE Head(seqs) \o Concat(Tail(seqs))

\* C29: for every buffer and chunk size S >= 1, with n = ceil(L / S) pieces
\* (1 for the empty buffer), the chunks built for the indices 0 .. n - 1
\* have payloads whose concatenation in index order is the buffer, all
\* have proof.count = n, and all their proofs reconstruct one root.
C29_Reassembly ==
    (op = "ChunkWithProof::new" /\ chunk_size >= 1 /\ index = 0)
        => LET n == IF data = <<>> THEN 1 ELSE CeilDiv(Len(data), chunk_size)
               built == [k \in 1 .. n |->
                           Constructor(variant, data, k - 1, chunk_size, overflow_checks)]
           IN  /\ res = built[1]
               /\ \A k \in 1 .. n : built[k].tag = "Ok"
               /\ Concat([k \in 1 .. n |-> built[k].val.chunk]) = data
               /\ \A k \in 1 .. n : built[k].val.proof.count = n
               /\ \A k \in 1 .. n :
                     root_hash(built[k].val.proof) = root_hash(res.val.proof)

\* five bytes in three pieces of the fixed size, the last one short
C29_Witness ==
    /\ op = "ChunkWithProof::new"
    /\ variant = "chunk.rs"
    /\ index = 0
    /\ Len(data) = 5
    /\ data[1] # data[2]
    /\ res.tag = "Ok"
    /\ res.val.proof.count = 3
    /\ Concat(<<res.val.chunk,
                Chunk_new(data, 1, overflow_checks).val.chunk,
                Chunk_new(data, 2, overflow_checks).val.chunk>>) = data
    /\ root_hash(Chunk_new(data, 2, overflow_checks).val.proof) = root_hash(proof)

\* C30: a chunk of any making that chunk.rs is_valid accepts and whose
\* proof reconstructs the root of the blob carries the piece of the blob at
\* proof.index; the concatenated bytes of two sibling leaf hashes under a
\* shortened sibling list are not taken for a piece.
C30_AcceptedFixedChunkIsPiece ==
    (/\ Received
     /\ variant = "chunk.rs"
     /\ verdict = "accepted"
     /\ decoded.tag = "Ok"
     /\ root_hash(chunk.proof) = TrustedRoot)
        => /\ chunk.proof.index < PieceCount
           /\ chunk.chunk = Pieces(data, chunk_size)[chunk.proof.index + 1]

====
